---- MODULE Spec2Model ----
(***************************************************************************)
(* A model of the playlist tools of IPTV.txt2m3u.player:                   *)
(*   scripts/m3u_merger.py  - parse_single_m3u and the merge loop, the     *)
(*                            serializer and the write of main()           *)
(*   scripts/url_sorter.py  - parse_m3u_file, sort_m3u_urls and the start  *)
(*                            of main()                                    *)
(*   scripts/m3u_mergerng.py - parse_m3u                                   *)
(*                                                                         *)
(* A playlist line is modelled by what the tools read from it:             *)
(*   [t |-> "hdr", v]             "#EXTM3U..." or "#PLAYLIST..."           *)
(*   [t |-> "inf", name, grp, gq, tvg, mid]                                *)
(*        "#EXTINF:..." with the text after its last comma (name, NoVal    *)
(*        when the line has none), the value of its group-title attribute  *)
(*        (grp), how that attribute is quoted (gq: "dq", "sq" or "none"),  *)
(*        the value of its tvg-name attribute (tvg, NoVal when absent) and *)
(*        the text between its first and its last comma (mid, NoVal when   *)
(*        the line has one comma)                                          *)
(*   [t |-> "grp", label]         "#EXTGRP:label"                          *)
(*   [t |-> "cfg", v]             any other line starting with "#"         *)
(*   [t |-> "url", sch, n, w]     a line not starting with "#": its scheme *)
(*        (sch: "http" for http:// and https://, "other" for another       *)
(*        "xxx://", "none" for a line without "://"), a number n that      *)
(*        orders the strings, and the words w found in it                  *)
(*   [t |-> "blank"]              an empty line                            *)
(***************************************************************************)
EXTENDS Integers, Sequences, FiniteSets, TLC

VARIABLES
    pc,                   \* m3u_merger main(): "validate", "invalid", "loop", "parse",
                          \* "merged", "done", "failed"
    inputs,               \* args.input: for each input file the loop of line 229 has not
                          \* reached yet, "ok", "missing" or "unreadable"
    vocab,                \* the set of lines the input documents are drawn from
    no_config,            \* args.no_config, read when the output is rendered
    ps,                   \* the locals of parse_single_m3u for the current document
    doc_urls,             \* the http(s) lines of the current document read so far
    doc_lines,            \* the lines of the current document read so far (content, line 238),
                          \* until the output is rendered
    nread,                \* lines of the current document read so far
    nfiles,               \* input files opened so far
    final_channels_data,  \* main(): group -> [channels, order_list]
    group_global_order,   \* main(): groups in first-seen order
    final_header,         \* main(): the header line kept
    output_lines,         \* main(): the rendered lines
    written,              \* how often the output sink was written
    spc,                  \* url_sorter sort_m3u_urls(): "parse", "unreadable", "process",
                          \* "returned", "raised"; main(): "main", "validate", "exit1"
    svocab,               \* the set of lines the transform tool's input is drawn from
    args,                 \* the arguments of sort_m3u_urls, as normalised by lines 186-191
    sp,                   \* the locals of parse_m3u_file
    sorter_doc,           \* parse_m3u_file: the lines read so far, lines[0..i)
    channels_data,        \* sort_m3u_urls: the parsed channels (sorted in place by line 256)
    ch_index,             \* channels of the loop of line 263 done so far
    sorter_lines,         \* sort_m3u_urls: output_lines
    last_group,           \* sort_m3u_urls: last_group
    processed_groups,     \* sort_m3u_urls: processed_groups
    counts,               \* sort_m3u_urls: the counters returned
    sorter_written,       \* url_sorter main: how many times the output was written
    npc,                  \* m3u_mergerng parse_m3u(): "parse", "returned", "missing"
    ng,                   \* the locals of parse_m3u
    ng_doc                \* parse_m3u: the lines of the file read so far

mvars == <<pc, inputs, vocab, no_config, ps, doc_urls, doc_lines, nread, nfiles, final_channels_data,
           group_global_order, final_header, output_lines, written>>

svars == <<spc, svocab, args, sp, sorter_doc, channels_data, ch_index, sorter_lines, last_group,
           processed_groups, counts, sorter_written>>

nvars == <<npc, ng, ng_doc>>

vars == <<mvars, svars, nvars>>

\* ---------------------------------------------------------------- bounds

MaxLines == 3     \* lines per input document
MaxFiles == 2     \* input files per run
MaxSortLines == 4 \* lines of the transform tool's input
MaxNgLines == 4   \* lines of the input of m3u_mergerng

\* ---------------------------------------------------------------- values

NoVal == "None"                 \* Python's None (and the empty string where tested for truth)
NoLine == [t |-> "none"]        \* no line held

Inf(n, g, q) == [t |-> "inf", name |-> n, grp |-> g, gq |-> q, tvg |-> NoVal, mid |-> NoVal]

\* An #EXTINF line whose tvg-name value tv holds a comma; m is the text from that
\* comma to the one in front of the name.
InfComma(n, g, q, tv, m) == [Inf(n, g, q) EXCEPT !.tvg = tv, !.mid = m]
Url(s, n, w) == [t |-> "url", sch |-> s, n |-> n, w |-> w]
Cfg(c) == [t |-> "cfg", v |-> c]
Tag(g) == [t |-> "grp", label |-> g]
Hdr(v) == [t |-> "hdr", v |-> v]
Blank == [t |-> "blank"]

EmptyMap == [x \in {} |-> NoVal]

\* The documents of the merge tool are drawn from one of these line sets.
VocabOrder ==
    { Inf("A", "News", "dq"), Inf("B", "News", "dq"), Inf("C", "News", "dq"),
      Inf("D", "News", "dq"), Inf("A", "Sports", "dq") }

VocabResources ==
    { Inf("A", "News", "dq"), Inf("B", "News", "dq"),
      Url("http", 1, <<>>), Url("http", 2, <<>>), Cfg("c1") }

VocabOdd ==
    { Inf("A", "News", "sq"), Inf(NoVal, "News", "dq"),
      Url("http", 1, <<>>), Cfg("c1"), Tag("News"), Hdr("#EXTM3U") }

VocabMeta ==
    { Inf("A", "News", "sq"), Inf("A", NoVal, "none"), Url("http", 1, <<>>), Url("http", 2, <<>>) }

\* '#EXTINF:-1 tvg-name="x,y" group-title="News",A', the same channel without the
\* tvg-name attribute, and a url.
VocabComma ==
    { InfComma("A", "News", "dq", "x,y", "y\" group-title=\"News\""), Inf("A", "News", "dq"),
      Url("http", 1, <<>>) }

MergerVocabs == { VocabOrder, VocabResources, VocabOdd, VocabMeta, VocabComma }

\* ---------------------------------------------------------------- m3u_merger: parser

\* extract_group_title: only a double-quoted attribute is recognised.
extract_group_title(info_line) ==
    IF info_line.gq = "dq" THEN info_line.grp ELSE ""

ParseStart ==
    [ channels_map |-> EmptyMap, order_list |-> <<>>, header |-> NoLine,
      current_info_line |-> NoLine, current_channel_name |-> NoVal,
      current_group_title |-> NoVal, current_config_lines |-> <<>> ]

NewEntry(p) ==
    [ info |-> p.current_info_line, urls |-> {}, configs |-> p.current_config_lines ]

\* Mutant of Flush: a key met again keeps the #EXTINF line stored first.
FlushKeepsInfo(p) ==
    IF p.current_info_line # NoLine /\ p.current_channel_name # NoVal
    THEN LET channel_key == <<p.current_channel_name, p.current_group_title>> IN
         IF channel_key \notin DOMAIN p.channels_map
         THEN [p EXCEPT !.channels_map = @ @@ (channel_key :> NewEntry(p)),
                        !.order_list = Append(@, channel_key)]
         ELSE [p EXCEPT !.channels_map[channel_key].configs = @ \o p.current_config_lines]
    ELSE p

\* Lines 45-58 and 93-105: save the channel under construction.
Flush(p) ==
    IF p.current_info_line # NoLine /\ p.current_channel_name # NoVal
    THEN LET channel_key == <<p.current_channel_name, p.current_group_title>> IN
         IF channel_key \notin DOMAIN p.channels_map
         THEN [p EXCEPT !.channels_map = @ @@ (channel_key :> NewEntry(p)),
                        !.order_list = Append(@, channel_key)]
         ELSE [p EXCEPT !.channels_map[channel_key].info = p.current_info_line,
                        !.channels_map[channel_key].configs = @ \o p.current_config_lines]
    ELSE p

\* Lines 73-86: a resource line.
AddUrl(p, line) ==
    IF p.current_channel_name # NoVal /\ p.current_group_title # NoVal
    THEN LET channel_key == <<p.current_channel_name, p.current_group_title>>
             q == IF channel_key \notin DOMAIN p.channels_map
                  THEN [p EXCEPT !.channels_map = @ @@ (channel_key :> NewEntry(p)),
                                 !.order_list = Append(@, channel_key)]
                  ELSE p
         IN [q EXCEPT !.channels_map[channel_key].urls = @ \cup {line}]
    ELSE p

\* Lines 62-63: re.search(r',(.+)$', line) matches at the first comma of the line,
\* so the name is all the text behind that comma.
name_after_comma(line) ==
    IF line.mid = NoVal THEN line.name ELSE line.mid \o "," \o line.name

\* One iteration of the while loop of parse_single_m3u (lines 34-90).
ParseLine(p, line) ==
    IF line.t = "hdr" /\ line.v = "#EXTM3U"
    THEN IF p.header = NoLine THEN [p EXCEPT !.header = line] ELSE p
    ELSE IF line.t = "inf"
    THEN [Flush(p) EXCEPT !.current_info_line = line,
                          !.current_channel_name = name_after_comma(line),
                          !.current_group_title = extract_group_title(line),
                          !.current_config_lines = <<>>]
    ELSE IF line.t \in {"cfg", "grp", "hdr"}
    THEN [p EXCEPT !.current_config_lines = Append(@, line)]
    ELSE IF line.t = "url" /\ line.sch = "http"
    THEN AddUrl(p, line)
    ELSE p

RECURSIVE ParseLines(_, _)
ParseLines(p, lines) ==
    IF lines = <<>> THEN p ELSE ParseLines(ParseLine(p, Head(lines)), Tail(lines))

\* parse_single_m3u on a whole document.
parse_single_m3u(lines) == Flush(ParseLines(ParseStart, lines))

\* ---------------------------------------------------------------- m3u_merger: merge

\* Mutant of ListInsert: the new key is appended to the end of the list.
ListInsertAtEnd(list, index, x) == Append(list, x)

\* list.insert(index, x) for 0 <= index <= len(list)
ListInsert(list, index, x) ==
    SubSeq(list, 1, index) \o <<x>> \o SubSeq(list, index + 1, Len(list))

\* list.index(x), 0-based, for x in list
ListIndex(list, x) == (CHOOSE i \in 1..Len(list) : list[i] = x /\ \A j \in 1..(i - 1) : list[j] # x) - 1

SeqToSet(s) == { s[i] : i \in 1..Len(s) }

\* The lines the merge tool stores as config lines.
IsConfigLine(l) == l.t \in {"cfg", "grp"} \/ (l.t = "hdr" /\ l.v # "#EXTM3U")

\* The orders in which a Python set of the config lines of V may be iterated.
SetOrders(V) ==
    LET C == { l \in V : IsConfigLine(l) } IN
    { o \in [1..Cardinality(C) -> C] : \A i, j \in 1..Cardinality(C) : o[i] = o[j] => i = j }

\* list(set(xs)) under the iteration order ord
ListOfSet(xs, ord) == SelectSeq(ord, LAMBDA l : l \in SeqToSet(xs))

\* Mutant of MergeUrls: the urls of the new occurrence replace the old ones.
MergeUrlsOverwrite(old, new) == [old EXCEPT !.info = new.info, !.urls = new.urls]

\* Lines 270-271: an entry met again takes the new info line and the union of the urls.
MergeUrls(old, new) == [old EXCEPT !.info = new.info, !.urls = @ \cup new.urls]

\* Mutant of MergeItem: a key met again is moved behind the entry that precedes it
\* in the document.
MergeItemMovingKnown(g, channel_key, current_channel_data, ord) ==
    LET channel_name == channel_key[1] IN
    IF channel_name \in DOMAIN g.channels
    THEN LET rest == SelectSeq(g.order_list, LAMBDA x : x # channel_name)
             at == IF g.last_known_channel_index + 1 <= Len(rest)
                   THEN g.last_known_channel_index + 1 ELSE Len(rest)
         IN [g EXCEPT
                !.channels[channel_name] =
                    [MergeUrls(@, current_channel_data) EXCEPT
                        !.configs = ListOfSet(g.channels[channel_name].configs
                                              \o current_channel_data.configs, ord)],
                !.order_list = ListInsert(rest, at, channel_name),
                !.last_known_channel_index = at]
    ELSE LET insert_index == g.last_known_channel_index + 1 IN
         [g EXCEPT
            !.channels = @ @@ (channel_name :> current_channel_data),
            !.order_list = ListInsert(@, insert_index, channel_name),
            !.last_known_channel_index = insert_index]

\* Lines 266-294: one channel of the current document folded into its group.
\* g is [channels, order_list, last_known_channel_index].
MergeItem(g, channel_key, current_channel_data, ord) ==
    LET channel_name == channel_key[1] IN
    IF channel_name \in DOMAIN g.channels
    THEN [g EXCEPT
            !.channels[channel_name] =
                [MergeUrls(@, current_channel_data) EXCEPT
                    !.configs = ListOfSet(g.channels[channel_name].configs
                                          \o current_channel_data.configs, ord)],
            !.last_known_channel_index =
                IF channel_name \in SeqToSet(g.order_list)
                THEN ListIndex(g.order_list, channel_name) ELSE @]
    ELSE LET insert_index == g.last_known_channel_index + 1 IN
         [g EXCEPT
            !.channels = @ @@ (channel_name :> current_channel_data),
            !.order_list = ListInsert(@, insert_index, channel_name),
            !.last_known_channel_index = insert_index]

RECURSIVE MergeItems(_, _, _, _)
MergeItems(g, items, current_map, ord) ==
    IF items = <<>> THEN g
    ELSE MergeItems(MergeItem(g, Head(items), current_map[Head(items)], ord),
                    Tail(items), current_map, ord)

\* Lines 245-252: the groups of the current document, in first-seen order.
RECURSIVE GroupsInOrder(_)
GroupsInOrder(order_list) ==
    IF order_list = <<>> THEN <<>>
    ELSE LET rest == GroupsInOrder(SubSeq(order_list, 1, Len(order_list) - 1))
             grp == order_list[Len(order_list)][2]
         IN IF grp \in SeqToSet(rest) THEN rest ELSE Append(rest, grp)

current_groups(order_list, group) == SelectSeq(order_list, LAMBDA k : k[2] = group)

\* Mutant of MergeGroup: the names the document lists for the group are first taken
\* out of every other group's order list (an entry migrates with its name).
MergeGroupMigrating(m, group_title, parsed, ord) ==
    LET moved == { k[1] : k \in { x \in SeqToSet(parsed.order_list) : x[2] = group_title } }
        m0 == [m EXCEPT !.data =
                 [g \in DOMAIN m.data |->
                    IF g = group_title THEN m.data[g]
                    ELSE [m.data[g] EXCEPT !.order_list = SelectSeq(@, LAMBDA x : x \notin moved)]]]
        m1 == IF group_title \notin DOMAIN m0.data
              THEN [data |-> m0.data @@ (group_title :> [channels |-> EmptyMap, order_list |-> <<>>]),
                    order |-> Append(m0.order, group_title)]
              ELSE m0
        g0 == [channels |-> m1.data[group_title].channels,
               order_list |-> m1.data[group_title].order_list,
               last_known_channel_index |-> -1]
        g1 == MergeItems(g0, current_groups(parsed.order_list, group_title),
                         parsed.channels_map, ord)
    IN [m1 EXCEPT !.data[group_title] = [channels |-> g1.channels, order_list |-> g1.order_list]]

\* Lines 254-294 for one group. m is [data, order]: final_channels_data and
\* group_global_order.
MergeGroup(m, group_title, parsed, ord) ==
    LET m1 == IF group_title \notin DOMAIN m.data
              THEN [data |-> m.data @@ (group_title :> [channels |-> EmptyMap, order_list |-> <<>>]),
                    order |-> Append(m.order, group_title)]
              ELSE m
        g0 == [channels |-> m1.data[group_title].channels,
               order_list |-> m1.data[group_title].order_list,
               last_known_channel_index |-> -1]
        g1 == MergeItems(g0, current_groups(parsed.order_list, group_title),
                         parsed.channels_map, ord)
    IN [m1 EXCEPT !.data[group_title] = [channels |-> g1.channels, order_list |-> g1.order_list]]

RECURSIVE MergeGroups(_, _, _, _)
MergeGroups(m, groups, parsed, ord) ==
    IF groups = <<>> THEN m
    ELSE MergeGroups(MergeGroup(m, Head(groups), parsed, ord), Tail(groups), parsed, ord)

\* Lines 240-294: a parsed document folded into the merge state.
MergeDoc(m, parsed, ord) == MergeGroups(m, GroupsInOrder(parsed.order_list), parsed, ord)

\* ---------------------------------------------------------------- m3u_merger: serializer

\* Where a url sorts among strings: scheme, then the number, then its words.
WordRank(w) == CASE w = "hd" -> 1 [] w = "HD" -> 2 [] w = "sd" -> 3 [] w = "SD" -> 4 [] OTHER -> 5
UrlKey(u) ==
    (CASE u.sch = "http" -> 1 [] u.sch = "other" -> 2 [] OTHER -> 0) * 1000 + u.n * 100
    + (IF Len(u.w) >= 1 THEN WordRank(u.w[1]) * 10 ELSE 0)
    + (IF Len(u.w) >= 2 THEN WordRank(u.w[2]) ELSE 0)

\* sorted(list(urls))
RECURSIVE SortedUrls(_)
SortedUrls(urls) ==
    IF urls = {} THEN <<>>
    ELSE LET u == CHOOSE x \in urls : \A y \in urls : UrlKey(x) <= UrlKey(y)
         IN <<u>> \o SortedUrls(urls \ {u})

\* Mutant of RenderEntry: the resource lines are written before the info line.
RenderEntryUrlsFirst(data, noconfig) ==
    SortedUrls(data.urls) \o <<data.info>> \o (IF noconfig THEN <<>> ELSE data.configs)

\* Lines 311-320: the lines of one entry.
RenderEntry(data, noconfig) ==
    <<data.info>> \o (IF noconfig THEN <<>> ELSE data.configs) \o SortedUrls(data.urls)

RECURSIVE RenderNames(_, _, _)
RenderNames(group_data, names, noconfig) ==
    IF names = <<>> THEN <<>>
    ELSE (IF Head(names) \in DOMAIN group_data.channels
          THEN RenderEntry(group_data.channels[Head(names)], noconfig) ELSE <<>>)
         \o RenderNames(group_data, Tail(names), noconfig)

RECURSIVE RenderGroups(_, _, _)
RenderGroups(data, groups, noconfig) ==
    IF groups = <<>> THEN <<>>
    ELSE (IF Head(groups) \in DOMAIN data
          THEN RenderNames(data[Head(groups)], data[Head(groups)].order_list, noconfig)
          ELSE <<>>)
         \o RenderGroups(data, Tail(groups), noconfig)

\* Lines 300-322: the rendered document.
Render(header, data, groups, noconfig) ==
    (IF header # NoLine THEN <<header>> ELSE <<>>) \o RenderGroups(data, groups, noconfig)

\* ---------------------------------------------------------------- url_sorter: strings

\* str.lower() on the words of the model
Lower(w) ==
    CASE w = "HD" -> "hd" [] w = "SD" -> "sd" [] w = "News" -> "news"
      [] w = "Sports" -> "sports" [] w = "A" -> "a" [] w = "B" -> "b" [] OTHER -> w

\* Python truth of an optional string
Truthy(x) == x # NoVal /\ x # ""

\* kw.lower() in url.lower()
UrlContains(url, kw) == \E i \in 1..Len(url.w) : Lower(url.w[i]) = Lower(kw)

\* The words of an #EXTINF line: its attribute values and its display name.
InfWords(inf) ==
    (IF inf.name # NoVal THEN {inf.name} ELSE {})
    \cup (IF inf.gq # "none" THEN {inf.grp} ELSE {})
    \cup (IF inf.tvg # NoVal THEN {inf.tvg} ELSE {})
    \cup (IF inf.mid # NoVal THEN {inf.mid} ELSE {})

\* tc.lower() in ch["inf"].lower()
InfContains(inf, tc) == \E w \in InfWords(inf) : Lower(w) = Lower(tc)

\* gn.lower() in ch_group.lower(), for a group that is a string
GroupContains(ch_group, gn) == Lower(ch_group) = Lower(gn)

\* The outcome of a call that raises an exception.
Raised == [t |-> "raised"]

\* ---------------------------------------------------------------- url_sorter: parser

\* parse_extinf_group (lines 9-29)
parse_extinf_group(extinf_line) ==
    IF extinf_line.gq \in {"dq", "sq"} THEN extinf_line.grp ELSE NoVal

\* update_extinf_group (lines 31-64); line 46 reads updated_line before it is assigned.
update_extinf_group(extinf_line, new_group_name) ==
    IF extinf_line.gq = "dq" THEN [extinf_line EXCEPT !.grp = new_group_name]
    ELSE IF extinf_line.gq = "sq" THEN Raised
    ELSE IF extinf_line.name # NoVal
    THEN [extinf_line EXCEPT !.grp = new_group_name, !.gq = "dq"]
    ELSE extinf_line

SortParseStart ==
    [ channels_data |-> <<>>, header_lines |-> <<>>, current_inf |-> NoLine,
      current_urls |-> <<>>, current_group |-> NoVal, current_extgrp |-> NoLine, i |-> 0 ]

\* Lines 114-126 and 145-157: the channel under construction is saved.
SaveChannel(p) ==
    IF p.current_inf # NoLine
    THEN LET group == IF p.current_group = NoVal
                      THEN parse_extinf_group(p.current_inf) ELSE p.current_group
         IN [p EXCEPT !.channels_data =
                Append(@, [inf |-> p.current_inf, urls |-> p.current_urls,
                           group |-> group, extgrp_line |-> p.current_extgrp])]
    ELSE p

\* Mutant of ParseFileLine: an #EXTINF line without a group-title attribute keeps the
\* group of the #EXTGRP line read before it.
ParseFileLineKeepsTag(p, line) ==
    LET q == [p EXCEPT !.i = @ + 1] IN
    IF line.t = "blank" THEN q
    ELSE IF p.i = 0 /\ line.t = "hdr"
    THEN [q EXCEPT !.header_lines = Append(@, line)]
    ELSE IF p.i < 3 /\ line.t \in {"hdr", "cfg"}
    THEN [q EXCEPT !.header_lines = Append(@, line)]
    ELSE IF line.t = "grp"
    THEN [q EXCEPT !.current_extgrp = line, !.current_group = line.label]
    ELSE IF line.t = "inf"
    THEN [SaveChannel(q) EXCEPT !.current_inf = line,
                                !.current_urls = <<>>,
                                !.current_group = IF parse_extinf_group(line) # NoVal
                                                  THEN parse_extinf_group(line)
                                                  ELSE q.current_group,
                                !.current_extgrp = NoLine]
    ELSE IF line.t = "url"
    THEN [q EXCEPT !.current_urls = Append(@, line)]
    ELSE q

\* One iteration of the while loop of parse_m3u_file (lines 86-143).
ParseFileLine(p, line) ==
    LET q == [p EXCEPT !.i = @ + 1] IN
    IF line.t = "blank" THEN q
    ELSE IF p.i = 0 /\ line.t = "hdr"
    THEN [q EXCEPT !.header_lines = Append(@, line)]
    ELSE IF p.i < 3 /\ line.t \in {"hdr", "cfg"}
    THEN [q EXCEPT !.header_lines = Append(@, line)]
    ELSE IF line.t = "grp"
    THEN [q EXCEPT !.current_extgrp = line, !.current_group = line.label]
    ELSE IF line.t = "inf"
    THEN [SaveChannel(q) EXCEPT !.current_inf = line,
                                !.current_urls = <<>>,
                                !.current_group = parse_extinf_group(line),
                                !.current_extgrp = NoLine]
    ELSE IF line.t = "url"
    THEN [q EXCEPT !.current_urls = Append(@, line)]
    ELSE q

\* ---------------------------------------------------------------- url_sorter: scoring

NonUrlScore == 9999

\* The 0-based index of the first keyword found in the url, -1 when there is none
\* (the loop of lines 209-213).
RECURSIVE FirstKeyword(_, _, _)
FirstKeyword(item, keywords, index) ==
    IF index >= Len(keywords) THEN -1
    ELSE IF UrlContains(item, keywords[index + 1]) THEN index
    ELSE FirstKeyword(item, keywords, index + 1)

\* Mutant of get_url_sort_score: the two modes' scores are exchanged.
get_url_sort_score_swapped(item, keywords, reverse_mode) ==
    IF item.sch = "none" THEN NonUrlScore
    ELSE LET index == FirstKeyword(item, keywords, 0) IN
         IF index >= 0
         THEN IF reverse_mode THEN index - Len(keywords) ELSE index + 1
         ELSE 0

\* get_url_sort_score (lines 204-214)
get_url_sort_score(item, keywords, reverse_mode) ==
    IF item.sch = "none" THEN NonUrlScore
    ELSE LET index == FirstKeyword(item, keywords, 0) IN
         IF index >= 0
         THEN IF reverse_mode THEN index + 1 ELSE index - Len(keywords)
         ELSE 0

\* ch_group.lower() of lines 224 and 274 raises AttributeError when the group is
\* None and there is a group keyword to look for.
GroupLookupRaises(ch_group, group_names) == group_names # <<>> /\ ch_group = NoVal

\* get_group_sort_score (lines 217-227), for a channel on which it does not raise
get_group_sort_score(channel_data, group_names) ==
    LET hits == { i \in 1..Len(group_names) :
                     GroupContains(channel_data.group, group_names[i]) }
    IN IF hits = {} THEN 0
       ELSE (CHOOSE i \in hits : \A j \in hits : i <= j) - 1 - Len(group_names)

\* Mutant of InsertByKey: an item is put before the items of equal key.
InsertByKeyBeforeEqual(sorted, keys, x, k) ==
    LET n == Cardinality({ i \in 1..Len(sorted) : keys[i] < k })
    IN [ s |-> SubSeq(sorted, 1, n) \o <<x>> \o SubSeq(sorted, n + 1, Len(sorted)),
         k |-> SubSeq(keys, 1, n) \o <<k>> \o SubSeq(keys, n + 1, Len(keys)) ]

\* sorted() and list.sort() are stable: an item goes behind the items whose key is
\* not greater than its own.
InsertByKey(sorted, keys, x, k) ==
    LET n == Cardinality({ i \in 1..Len(sorted) : keys[i] <= k })
    IN [ s |-> SubSeq(sorted, 1, n) \o <<x>> \o SubSeq(sorted, n + 1, Len(sorted)),
         k |-> SubSeq(keys, 1, n) \o <<k>> \o SubSeq(keys, n + 1, Len(keys)) ]

RECURSIVE SortByKeys(_, _)
SortByKeys(items, keys) ==
    IF items = <<>> THEN [s |-> <<>>, k |-> <<>>]
    ELSE LET n == Len(items)
             rest == SortByKeys(SubSeq(items, 1, n - 1), SubSeq(keys, 1, n - 1))
         IN InsertByKey(rest.s, rest.k, items[n], keys[n])

\* sorted(ch["urls"], key=get_url_sort_score) (line 400)
SortedByScore(urls, keywords, reverse_mode) ==
    SortByKeys(urls, [i \in 1..Len(urls) |-> get_url_sort_score(urls[i], keywords, reverse_mode)]).s

\* channels_data.sort(key=get_group_sort_score) (line 256)
\* when the key function raises on no channel
SortedByGroup(chs, group_names) ==
    SortByKeys(chs, [i \in 1..Len(chs) |-> get_group_sort_score(chs[i], group_names)]).s

\* The key function is called on every channel; it raises on one without a group.
GroupSortRaises(chs, group_names) ==
    \E i \in 1..Len(chs) : GroupLookupRaises(chs[i].group, group_names)


\* ---------------------------------------------------------------- url_sorter: sort_m3u_urls

\* The bool of line 191.
rename_mode(a) == Truthy(a.new_name) \/ Truthy(a.rename_group)

\* rename_inf (lines 230-241): the tvg-name attribute and the display name are replaced.
rename_inf(inf_line, name) ==
    [inf_line EXCEPT !.tvg = IF @ # NoVal THEN name ELSE @, !.name = name]

\* Line 268
name_match(ch, a) ==
    a.target_channels # <<>>
    /\ \E i \in 1..Len(a.target_channels) : InfContains(ch.inf, a.target_channels[i])

\* Line 271
url_match_for_rename(ch, a) ==
    \E j \in 1..Len(ch.urls) : \E i \in 1..Len(a.keywords) : UrlContains(ch.urls[j], a.keywords[i])

\* Line 274, for a channel on which it does not raise
group_match(ch, a) ==
    a.group_names = <<>>
    \/ \E i \in 1..Len(a.group_names) : GroupContains(ch.group, a.group_names[i])

\* Lines 277-280
should_process(ch, a) ==
    IF a.group_names # <<>> /\ ~group_match(ch, a)
    THEN ~a.group_sort \/ (a.group_sort /\ ~rename_mode(a))
    ELSE TRUE

\* Lines 288-301 and 353-366: the four combinations of -k and -ch.
should_rename_this_group(ch, a) ==
    \/ a.keywords = <<>> /\ a.target_channels = <<>>
    \/ a.keywords # <<>> /\ a.target_channels = <<>> /\ url_match_for_rename(ch, a)
    \/ a.keywords = <<>> /\ a.target_channels # <<>> /\ name_match(ch, a)
    \/ a.keywords # <<>> /\ a.target_channels # <<>> /\ name_match(ch, a) /\ url_match_for_rename(ch, a)

\* Lines 380-395
should_sort_urls(ch, a) ==
    IF a.group_sort THEN group_match(ch, a) /\ Len(ch.urls) > 1
    ELSE IF a.target_channels # <<>> THEN name_match(ch, a) /\ group_match(ch, a)
    ELSE IF a.group_names # <<>> THEN group_match(ch, a)
    ELSE TRUE

\* Mutant of EmittedUrls: the resources are sorted by score in rename mode too.
EmittedUrlsAlwaysSorted(ch, a) ==
    IF should_sort_urls(ch, a) /\ Len(ch.urls) > 1
    THEN SortedByScore(ch.urls, a.keywords, a.reverse_mode)
    ELSE ch.urls

\* Lines 397-405 and 411-413: the resource lines written for a processed channel.
EmittedUrls(ch, a) ==
    IF ~rename_mode(a) /\ should_sort_urls(ch, a) /\ Len(ch.urls) > 1
    THEN SortedByScore(ch.urls, a.keywords, a.reverse_mode)
    ELSE ch.urls

\* Lines 282-325: the #EXTGRP line written before the channel, and the bookkeeping.
\* st is [lines, last_group, processed_groups, counts].
EmitGroupTag(st, ch, a) ==
    IF Truthy(ch.group) /\ ch.group # st.last_group
    THEN IF rename_mode(a) /\ Truthy(a.rename_group) /\ group_match(ch, a)
              /\ should_rename_this_group(ch, a)
         THEN [st EXCEPT
                 !.lines = Append(@, Tag(a.rename_group)),
                 !.counts.group_rename_count =
                     IF ch.group \notin st.processed_groups THEN @ + 1 ELSE @,
                 !.counts.group_rename_with_k_count =
                     IF ch.group \notin st.processed_groups /\ a.keywords # <<>> THEN @ + 1 ELSE @,
                 !.processed_groups = @ \cup {ch.group},
                 !.last_group = ch.group]
         ELSE [st EXCEPT
                 !.lines = IF ch.extgrp_line # NoLine THEN Append(@, ch.extgrp_line) ELSE @,
                 !.last_group = ch.group]
    ELSE st

\* Lines 341-375: the #EXTINF line of a processed channel in rename mode (Raised when
\* update_extinf_group raises).
RenamedInf(ch, a) ==
    LET inf1 == IF Truthy(a.new_name) /\ a.target_channels # <<>> /\ a.keywords # <<>>
                   /\ name_match(ch, a) /\ url_match_for_rename(ch, a)
                THEN rename_inf(ch.inf, a.new_name) ELSE ch.inf
    IN IF Truthy(a.rename_group) /\ group_match(ch, a) /\ Truthy(parse_extinf_group(inf1))
          /\ should_rename_this_group(ch, a)
       THEN update_extinf_group(inf1, a.rename_group)
       ELSE inf1

\* Lines 264-413: one iteration of the loop over the channels; Raised when it raises.
ProcessOne(st, ch, a) ==
    IF GroupLookupRaises(ch.group, a.group_names) THEN Raised
    ELSE LET st1 == EmitGroupTag(st, ch, a) IN
    IF ~should_process(ch, a)
    THEN [st1 EXCEPT !.lines = @ \o <<ch.inf>> \o ch.urls]
    ELSE IF rename_mode(a)
    THEN LET final_inf == RenamedInf(ch, a)
             renamed == Truthy(a.new_name) /\ a.target_channels # <<>> /\ a.keywords # <<>>
                        /\ name_match(ch, a) /\ url_match_for_rename(ch, a)
             regrouped == Truthy(a.rename_group) /\ group_match(ch, a)
                          /\ Truthy(parse_extinf_group(ch.inf))
                          /\ should_rename_this_group(ch, a)
         IN IF final_inf = Raised THEN Raised
            ELSE [st1 EXCEPT
                    !.lines = @ \o <<final_inf>> \o EmittedUrls(ch, a),
                    !.counts.rename_count = IF renamed THEN @ + 1 ELSE @,
                    !.counts.group_rename_count =
                        IF regrouped /\ ch.group \notin st1.processed_groups THEN @ + 1 ELSE @,
                    !.counts.group_rename_with_k_count =
                        IF regrouped /\ ch.group \notin st1.processed_groups /\ a.keywords # <<>>
                        THEN @ + 1 ELSE @,
                    !.processed_groups = IF regrouped THEN @ \cup {ch.group} ELSE @]
    ELSE [st1 EXCEPT
            !.lines = @ \o EmittedUrls(ch, a) \o <<ch.inf>>,
            !.counts.sort_count = IF EmittedUrls(ch, a) # ch.urls THEN @ + 1 ELSE @]


\* The input of the transform tool is drawn from one of these line sets.
VocabScore ==
    { Inf("A", "News", "dq"), Url("http", 1, <<>>), Url("http", 2, <<>>),
      Url("http", 3, <<"hd">>), Url("http", 4, <<"SD">>) }

VocabLayout ==
    { Inf("A", "News", "dq"), Inf("B", NoVal, "none"), Tag("Sports"),
      Url("http", 3, <<"hd">>), Url("none", 5, <<"hd">>) }

VocabHead ==
    { Hdr("#EXTM3U"), Cfg("c1"), Blank, Inf("A", "News", "sq"), Url("other", 1, <<>>) }

VocabTags ==
    { Inf("A", NoVal, "none"), Inf("B", NoVal, "none"), Tag("News"), Url("http", 3, <<"hd">>) }

\* '#EXTINF:-1 group-title="A",B': the letter a is in the group attribute and not
\* in the display name.
VocabScope ==
    { Inf("B", "A", "dq"), Url("http", 3, <<"hd">>) }

SorterVocabs == { VocabScore, VocabLayout, VocabHead, VocabTags, VocabScope }

\* The arguments sort_m3u_urls is called with, after lines 186-188 (a keyword list
\* that is None or empty is the empty sequence).
ArgsSet ==
    [ keywords : { <<>>, <<"HD">>, <<"HD", "sd">> },
      reverse_mode : BOOLEAN,
      target_channels : { <<>>, <<"a">> },
      new_name : { NoVal, "N" },
      group_names : { <<>>, <<"news">> },
      rename_group : { NoVal, "G" },
      group_sort : BOOLEAN ]

NoArgs ==
    [ keywords |-> <<>>, reverse_mode |-> FALSE, target_channels |-> <<>>, new_name |-> NoVal,
      group_names |-> <<>>, rename_group |-> NoVal, group_sort |-> FALSE ]

ZeroCounts ==
    [ rename_count |-> 0, sort_count |-> 0, group_rename_count |-> 0,
      group_sort_count |-> 0, group_rename_with_k_count |-> 0 ]

\* The transform tool is not running.
SorterIdle ==
    /\ spc = "idle"
    /\ svocab = {}
    /\ args = NoArgs
    /\ sp = SortParseStart
    /\ sorter_doc = <<>>
    /\ channels_data = <<>>
    /\ ch_index = 0
    /\ sorter_lines = <<>>
    /\ last_group = NoVal
    /\ processed_groups = {}
    /\ counts = ZeroCounts
    /\ sorter_written = 0

\* The merge tool is not running.
MergerIdle ==
    /\ pc = "idle"
    /\ inputs = <<>>
    /\ vocab = {}
    /\ no_config = FALSE
    /\ ps = ParseStart
    /\ doc_urls = {}
    /\ doc_lines = <<>>
    /\ nread = 0
    /\ nfiles = 0
    /\ final_channels_data = EmptyMap
    /\ group_global_order = <<>>
    /\ final_header = NoLine
    /\ output_lines = <<>>
    /\ written = 0

\* ---------------------------------------------------------------- m3u_mergerng: parse_m3u

\* A channel name of m3u_mergerng is the sequence of its characters; "tai" stands for
\* the suffix character that get_norm_key and is_preferred test for, and <<>> for a
\* name that is missing or empty.
RECURSIVE Strip(_)
Strip(name) ==
    IF name = <<>> THEN <<>>
    ELSE IF Head(name) = " " THEN Strip(Tail(name))
    ELSE IF name[Len(name)] = " " THEN Strip(SubSeq(name, 1, Len(name) - 1))
    ELSE name

UpperChar(c) == CASE c = "c" -> "C" [] OTHER -> c

Upper(name) == [i \in 1..Len(name) |-> UpperChar(name[i])]

\* get_norm_key (lines 10-16)
get_norm_key(name) ==
    IF name = <<>> THEN <<>>
    ELSE LET temp == SelectSeq(name, LAMBDA c : c # "-")
             cut == IF temp # <<>> /\ temp[Len(temp)] = "tai"
                    THEN SubSeq(temp, 1, Len(temp) - 1) ELSE temp
         IN Upper(Strip(cut))

\* is_preferred (lines 19-21)
is_preferred(name) ==
    (\E i \in 1..Len(name) : name[i] = "-") \/ (name # <<>> /\ name[Len(name)] = "tai")

\* The default of line 61 for a line without a double-quoted group-title.
NgDefaultGroup == "other"

NgParseStart ==
    [ channels |-> EmptyMap, order |-> <<>>, header |-> Hdr("#EXTM3U"),
      current_info |-> NoLine, current_name |-> <<>> ]

\* Mutant of NgParseLine: a key met again keeps the name and the line stored first.
NgParseLineKeepsFirst(p, line) ==
    IF line.t = "hdr" THEN [p EXCEPT !.header = line]
    ELSE IF line.t = "inf"
    THEN [p EXCEPT !.current_info = line, !.current_name = line.name]
    ELSE IF line.t = "url" /\ line.sch = "http" /\ p.current_name # <<>>
    THEN LET norm_key == get_norm_key(p.current_name)
             original_group == IF p.current_info.gq = "dq" THEN p.current_info.grp
                               ELSE NgDefaultGroup
         IN IF norm_key \notin DOMAIN p.channels
            THEN [p EXCEPT
                    !.channels = @ @@ (norm_key :>
                        [ info |-> p.current_info, name |-> p.current_name, urls |-> {line},
                          original_group |-> original_group, order_idx |-> Len(p.order) ]),
                    !.order = Append(@, norm_key)]
            ELSE [p EXCEPT !.channels[norm_key].urls = @ \cup {line}]
    ELSE p

\* One iteration of the loop of parse_m3u (lines 45-79).
NgParseLine(p, line) ==
    IF line.t = "hdr" THEN [p EXCEPT !.header = line]
    ELSE IF line.t = "inf"
    THEN [p EXCEPT !.current_info = line, !.current_name = line.name]
    ELSE IF line.t = "url" /\ line.sch = "http" /\ p.current_name # <<>>
    THEN LET norm_key == get_norm_key(p.current_name)
             original_group == IF p.current_info.gq = "dq" THEN p.current_info.grp
                               ELSE NgDefaultGroup
         IN IF norm_key \notin DOMAIN p.channels
            THEN [p EXCEPT
                    !.channels = @ @@ (norm_key :>
                        [ info |-> p.current_info, name |-> p.current_name, urls |-> {line},
                          original_group |-> original_group, order_idx |-> Len(p.order) ]),
                    !.order = Append(@, norm_key)]
            ELSE LET old_name == p.channels[norm_key].name IN
                 IF is_preferred(p.current_name) /\ ~is_preferred(old_name)
                 THEN [p EXCEPT !.channels[norm_key].urls = @ \cup {line},
                                !.channels[norm_key].info = p.current_info,
                                !.channels[norm_key].name = p.current_name]
                 ELSE [p EXCEPT !.channels[norm_key].urls = @ \cup {line}]
    ELSE p

\* The input of m3u_mergerng is drawn from these lines: four names with the key
\* "C1" (two of them preferred), one with the key "C2", one line without a name.
NgVocab ==
    { Inf(<<"c", "1">>, "News", "dq"),
      Inf(<<"C", "-", "1">>, "News", "dq"),
      Inf(<<"C", "1", " ", "tai">>, "Sports", "dq"),
      Inf(<<"C", "2">>, NoVal, "none"),
      Inf(<<>>, "News", "dq"),
      Url("http", 1, <<>>), Url("http", 2, <<>>), Url("other", 3, <<>>),
      Hdr("#EXTM3U") }

\* m3u_mergerng is not running.
NgIdle ==
    /\ npc = "idle"
    /\ ng = NgParseStart
    /\ ng_doc = <<>>

\* ---------------------------------------------------------------- m3u_merger: main

\* The files named on the command line, each present and readable, missing, or
\* present and not readable.
FileStates == {"ok", "missing", "unreadable"}

InputLists == UNION {[1..n -> FileStates] : n \in 1..MaxFiles}

\* validate_arguments (lines 153-189): a missing file is passed over with a warning,
\* a file that cannot be read makes the result False, and so does a list without
\* any file that exists.
merger_validate_arguments(input_files) ==
    /\ \A i \in 1..Len(input_files) : input_files[i] # "unreadable"
    /\ \E i \in 1..Len(input_files) : input_files[i] = "ok"

MergerInit ==
    /\ pc = "validate"
    /\ inputs \in InputLists
    /\ vocab \in MergerVocabs
    /\ no_config = FALSE
    /\ ps = ParseStart
    /\ doc_urls = {}
    /\ doc_lines = <<>>
    /\ nread = 0
    /\ nfiles = 0
    /\ final_channels_data = EmptyMap
    /\ group_global_order = <<>>
    /\ final_header = NoLine
    /\ output_lines = <<>>
    /\ written = 0
    /\ SorterIdle
    /\ NgIdle

\* Lines 211-212: main leaves with status 1 when validate_arguments returns False.
MergeValidate ==
    /\ pc = "validate"
    /\ pc' = IF merger_validate_arguments(inputs) THEN "loop" ELSE "invalid"
    /\ UNCHANGED <<inputs, vocab, no_config, ps, doc_urls, doc_lines, nread, nfiles,
                   final_channels_data, group_global_order, final_header, output_lines, written>>
    /\ UNCHANGED <<svars, nvars>>

\* The next line of the current document is read (lines 34-90).
ReadLine ==
    /\ pc = "parse"
    /\ nread < MaxLines
    /\ \E line \in vocab :
         /\ ps' = ParseLine(ps, line)
         /\ doc_urls' = IF line.t = "url" /\ line.sch = "http" THEN doc_urls \cup {line} ELSE doc_urls
         /\ doc_lines' = Append(doc_lines, line)
    /\ nread' = nread + 1
    /\ UNCHANGED <<pc, inputs, vocab, no_config, nfiles, final_channels_data, group_global_order,
                   final_header, output_lines, written>>
    /\ UNCHANGED <<svars, nvars>>

\* The document ends: the last channel is saved (lines 92-107) and the document is
\* folded into the merge state (lines 240-294).
EndDoc ==
    /\ pc = "parse"
    /\ \E ord \in SetOrders(vocab) :
         LET parsed == Flush(ps)
             m == MergeDoc([data |-> final_channels_data, order |-> group_global_order],
                           parsed, ord)
         IN /\ ps' = parsed
            /\ final_header' = IF final_header = NoLine /\ parsed.header # NoLine
                               THEN parsed.header ELSE final_header
            /\ final_channels_data' = m.data
            /\ group_global_order' = m.order
    /\ pc' = "merged"
    /\ UNCHANGED <<inputs, vocab, no_config, doc_urls, doc_lines, nread, nfiles, output_lines,
                   written>>
    /\ UNCHANGED <<svars, nvars>>

\* The loop of line 229 takes the next input file: a missing one is passed over with
\* a warning (230-232), another one is opened and read (237-238); a failing read ends
\* the run with status 1 (296-298).
NextFile ==
    /\ pc \in {"loop", "merged"}
    /\ inputs # <<>>
    /\ inputs' = Tail(inputs)
    /\ IF Head(inputs) = "ok"
       THEN /\ pc' = "parse"
            /\ ps' = ParseStart
            /\ doc_urls' = {}
            /\ doc_lines' = <<>>
            /\ nread' = 0
            /\ nfiles' = nfiles + 1
       ELSE /\ pc' = IF Head(inputs) = "missing" THEN pc ELSE "failed"
            /\ UNCHANGED <<ps, doc_urls, doc_lines, nread, nfiles>>
    /\ UNCHANGED <<vocab, no_config, final_channels_data, group_global_order,
                   final_header, output_lines, written>>
    /\ UNCHANGED <<svars, nvars>>

\* Lines 300-334: the content is rendered and written; the write may fail. The
\* --no-config flag has no effect before line 314, so the run's value of it is
\* drawn here.
WriteOutput ==
    /\ pc \in {"loop", "merged"}
    /\ inputs = <<>>
    /\ \E flag \in BOOLEAN :
         /\ no_config' = flag
         /\ output_lines' = Render(final_header, final_channels_data, group_global_order, flag)
    /\ \E success \in BOOLEAN :
         /\ pc' = IF success THEN "done" ELSE "failed"
         /\ written' = IF success THEN written + 1 ELSE written
    /\ doc_lines' = <<>>
    /\ UNCHANGED <<inputs, vocab, ps, doc_urls, nread, nfiles, final_channels_data,
                   group_global_order, final_header>>
    /\ UNCHANGED <<svars, nvars>>

MergerNext == MergeValidate \/ ReadLine \/ EndDoc \/ NextFile \/ WriteOutput

Spec == MergerInit /\ [][MergerNext]_vars

\* ---------------------------------------------------------------- url_sorter: main

SorterInit ==
    /\ spc = "parse"
    /\ svocab \in SorterVocabs
    /\ args = NoArgs
    /\ sp = SortParseStart
    /\ sorter_doc = <<>>
    /\ channels_data = <<>>
    /\ ch_index = 0
    /\ sorter_lines = <<>>
    /\ last_group = NoVal
    /\ processed_groups = {}
    /\ counts = ZeroCounts
    /\ sorter_written = 0
    /\ MergerIdle
    /\ NgIdle

\* Lines 193-198: the input file cannot be read and sort_m3u_urls returns None.
SortOpenFails ==
    /\ spc = "parse"
    /\ sp.i = 0
    /\ spc' = "unreadable"
    /\ UNCHANGED <<svocab, args, sp, sorter_doc, channels_data, ch_index, sorter_lines, last_group,
                   processed_groups, counts>>
    /\ UNCHANGED sorter_written
    /\ UNCHANGED <<mvars, nvars>>

\* parse_m3u_file reads the next line (lines 86-143).
SortReadLine ==
    /\ spc = "parse"
    /\ sp.i < MaxSortLines
    /\ \E line \in svocab :
         /\ sp' = ParseFileLine(sp, line)
         /\ sorter_doc' = Append(sorter_doc, line)
    /\ UNCHANGED <<spc, svocab, args, channels_data, ch_index, sorter_lines, last_group,
                   processed_groups, counts>>
    /\ UNCHANGED sorter_written
    /\ UNCHANGED <<mvars, nvars>>

\* The input ends: parse_m3u_file saves the last channel and returns (lines 145-159),
\* the header lines are written and the channels are sorted by group when asked for
\* (lines 243-261). The arguments have no effect on the parser, so the run's
\* arguments are drawn here, where they are first read.
SortBegin ==
    /\ spc = "parse"
    /\ \E a \in ArgsSet :
         LET parsed == SaveChannel(sp)
             group_sorting == a.group_sort /\ a.group_names # <<>> /\ ~rename_mode(a)
         IN /\ args' = a
            /\ sorter_lines' = parsed.header_lines
            /\ IF group_sorting /\ GroupSortRaises(parsed.channels_data, a.group_names)
               THEN /\ spc' = "raised"
                    /\ channels_data' = parsed.channels_data
                    /\ counts' = ZeroCounts
               ELSE /\ spc' = "process"
                    /\ channels_data' =
                          IF group_sorting
                          THEN SortedByGroup(parsed.channels_data, a.group_names)
                          ELSE parsed.channels_data
                    /\ counts' = [ZeroCounts EXCEPT !.group_sort_count = IF group_sorting THEN 1 ELSE 0]
    /\ sp' = SortParseStart
    /\ sorter_doc' = <<>>
    /\ ch_index' = 0
    /\ last_group' = NoVal
    /\ processed_groups' = {}
    /\ UNCHANGED svocab
    /\ UNCHANGED sorter_written
    /\ UNCHANGED <<mvars, nvars>>

\* One iteration of the loop of line 263.
SortChannel ==
    /\ spc = "process"
    /\ ch_index < Len(channels_data)
    /\ LET st == [lines |-> sorter_lines, last_group |-> last_group,
                  processed_groups |-> processed_groups, counts |-> counts]
           r == ProcessOne(st, channels_data[ch_index + 1], args)
       IN IF r = Raised
          THEN /\ spc' = "raised"
               /\ UNCHANGED <<ch_index, sorter_lines, last_group, processed_groups, counts>>
          ELSE /\ spc' = "process"
               /\ ch_index' = ch_index + 1
               /\ sorter_lines' = r.lines
               /\ last_group' = r.last_group
               /\ processed_groups' = r.processed_groups
               /\ counts' = r.counts
    /\ UNCHANGED <<svocab, args, sp, sorter_doc, channels_data>>
    /\ UNCHANGED sorter_written
    /\ UNCHANGED <<mvars, nvars>>

\* Line 415: the lines and the counters are returned.
SortReturn ==
    /\ spc = "process"
    /\ ch_index = Len(channels_data)
    /\ spc' = "returned"
    /\ UNCHANGED <<svocab, args, sp, sorter_doc, channels_data, ch_index, sorter_lines, last_group,
                   processed_groups, counts>>
    /\ UNCHANGED sorter_written
    /\ UNCHANGED <<mvars, nvars>>

\* ---------------------------------------------------------------- url_sorter: main

\* Lines 521-527: -rg needs -gr, and -rn needs both -ch and -k.
MainArgsValid(a) ==
    /\ (a.rename_group # NoVal => a.group_names # <<>>)
    /\ (a.new_name # NoVal => (a.target_channels # <<>> /\ a.keywords # <<>>))

\* validate_arguments (lines 423-425): the body is a docstring, so the call returns
\* None whatever its arguments are.
validate_arguments == NoVal

\* The script is started: main has parsed its command line.
SorterMainInit ==
    /\ spc = "main"
    /\ svocab = {}
    /\ args \in ArgsSet
    /\ sp = SortParseStart
    /\ sorter_doc = <<>>
    /\ channels_data = <<>>
    /\ ch_index = 0
    /\ sorter_lines = <<>>
    /\ last_group = NoVal
    /\ processed_groups = {}
    /\ counts = ZeroCounts
    /\ sorter_written = 0
    /\ MergerIdle
    /\ NgIdle

\* Lines 521-527: main leaves with status 1 when the arguments contradict each other.
SortMainCheckArgs ==
    /\ spc = "main"
    /\ spc' = IF MainArgsValid(args) THEN "validate" ELSE "exit1"
    /\ UNCHANGED <<svocab, args, sp, sorter_doc, channels_data, ch_index, sorter_lines, last_group,
                   processed_groups, counts, sorter_written>>
    /\ UNCHANGED <<mvars, nvars>>

\* Lines 565-566: "if not validate_arguments(...): sys.exit(1)". The call of
\* sort_m3u_urls (590) and the one of safe_write_output (600) are behind this exit.
SortMainValidate ==
    /\ spc = "validate"
    /\ spc' = IF Truthy(validate_arguments) THEN "call" ELSE "exit1"
    /\ UNCHANGED <<svocab, args, sp, sorter_doc, channels_data, ch_index, sorter_lines, last_group,
                   processed_groups, counts, sorter_written>>
    /\ UNCHANGED <<mvars, nvars>>

SorterNext == SortMainCheckArgs \/ SortMainValidate \/ SortOpenFails \/ SortReadLine \/ SortBegin \/ SortChannel \/ SortReturn

SpecSort == (SorterInit \/ SorterMainInit) /\ [][SorterNext]_vars

\* ---------------------------------------------------------------- m3u_mergerng: main

NgInit ==
    /\ npc = "parse"
    /\ ng = NgParseStart
    /\ ng_doc = <<>>
    /\ MergerIdle
    /\ SorterIdle

\* Lines 31-32: the file does not exist and parse_m3u returns (None, []).
NgMissingFile ==
    /\ npc = "parse"
    /\ ng_doc = <<>>
    /\ npc' = "missing"
    /\ UNCHANGED <<ng, ng_doc>>
    /\ UNCHANGED <<mvars, svars>>

\* The loop of line 45 reads the next line.
NgReadLine ==
    /\ npc = "parse"
    /\ Len(ng_doc) < MaxNgLines
    /\ \E line \in NgVocab :
         /\ ng' = NgParseLine(ng, line)
         /\ ng_doc' = Append(ng_doc, line)
    /\ UNCHANGED npc
    /\ UNCHANGED <<mvars, svars>>

\* Line 81: header, channels and order are returned.
NgReturn ==
    /\ npc = "parse"
    /\ npc' = "returned"
    /\ UNCHANGED <<ng, ng_doc>>
    /\ UNCHANGED <<mvars, svars>>

NgNext == NgMissingFile \/ NgReadLine \/ NgReturn

SpecNg == NgInit /\ [][NgNext]_vars

\* ---------------------------------------------------------------- either tool

\* A run of one of the two tools.
SpecAll == (MergerInit \/ SorterInit \/ SorterMainInit) /\ [][MergerNext \/ SorterNext]_vars


\* ---------------------------------------------------------------- claims on the merge tool

\* The step that folds the document just parsed into the merge state.
FoldStep == pc = "parse" /\ pc' = "merged"

OrderListOf(data, g) == IF g \in DOMAIN data THEN data[g].order_list ELSE <<>>

ChannelsOf(data, g) == IF g \in DOMAIN data THEN data[g].channels ELSE EmptyMap

\* The names a parsed document lists for group g, in document order.
NamesFor(parsed, g) ==
    LET keys == SelectSeq(parsed.order_list, LAMBDA k : k[2] = g)
    IN [i \in 1..Len(keys) |-> keys[i][1]]

PositionIn(list, x) == CHOOSE i \in 1..Len(list) : list[i] = x

NoDuplicates(list) == \A i, j \in 1..Len(list) : list[i] = list[j] => i = j

\* C1: when a document is folded into a group, a key already in the group's order
\* list is left where it is, and a new key is placed directly behind the entry that
\* precedes it in the document (at the front when it is the document's first entry
\* of the group); so [A,B,C] merged with [A,D,B] gives [A,D,B,C].
C1_RelativeInsertion ==
    [][FoldStep =>
        \A g \in DOMAIN final_channels_data' :
            LET old == OrderListOf(final_channels_data, g)
                new == OrderListOf(final_channels_data', g)
                items == NamesFor(ps', g)
            IN /\ SeqToSet(new) = SeqToSet(old) \cup SeqToSet(items)
               /\ NoDuplicates(new)
               /\ SelectSeq(new, LAMBDA x : x \in SeqToSet(old)) = old
               /\ \A j \in 1..Len(items) :
                     items[j] \notin SeqToSet(old) =>
                        PositionIn(new, items[j]) =
                            IF j = 1 THEN 1 ELSE PositionIn(new, items[j - 1]) + 1
               /\ (old = <<"A", "B", "C">> /\ items = <<"A", "D", "B">>)
                     => new = <<"A", "D", "B", "C">>
    ]_vars

C1_Witness ==
    /\ pc = "merged"
    /\ nfiles = 2
    /\ NamesFor(ps, "News") = <<"A", "D", "B">>
    /\ OrderListOf(final_channels_data, "News") = <<"A", "D", "B", "C">>

C3_FoldAgain ==
    pc = "merged" =>
        \A ord \in SetOrders(vocab) :
            LET again == MergeDoc([data |-> final_channels_data, order |-> group_global_order],
                                  ps, ord).data
            IN /\ DOMAIN again = DOMAIN final_channels_data
               /\ \A g \in DOMAIN again :
                    /\ DOMAIN again[g].channels = DOMAIN final_channels_data[g].channels
                    /\ \A n \in DOMAIN again[g].channels :
                          again[g].channels[n].urls = final_channels_data[g].channels[n].urls

C3_ResourceUnion ==
    /\ []C3_FoldAgain
    /\ [][FoldStep =>
            \A g \in DOMAIN final_channels_data' :
                \A n \in DOMAIN final_channels_data'[g].channels :
                    final_channels_data'[g].channels[n].urls =
                        (IF n \in DOMAIN ChannelsOf(final_channels_data, g)
                         THEN final_channels_data[g].channels[n].urls ELSE {})
                        \cup (IF <<n, g>> \in DOMAIN ps'.channels_map
                              THEN ps'.channels_map[<<n, g>>].urls ELSE {})
       ]_vars

C3_Witness ==
    /\ pc = "merged"
    /\ nfiles = 2
    /\ <<"A", "News">> \in DOMAIN ps.channels_map
    /\ ps.channels_map[<<"A", "News">>].urls = {Url("http", 2, <<>>)}
    /\ "A" \in DOMAIN ChannelsOf(final_channels_data, "News")
    /\ final_channels_data["News"].channels["A"].urls = {Url("http", 1, <<>>), Url("http", 2, <<>>)}

\* The identity keys of the merge result.
FinalKeys ==
    { k \in UNION { { <<n, g>> : n \in DOMAIN final_channels_data[g].channels } :
                    g \in DOMAIN final_channels_data } : TRUE }

\* C4: parsing the rendered merge result gives the keys of the merge result, with
\* the same resource set and the same group for every key.
C4_RoundTrip ==
    pc \in {"done", "failed"} =>
        LET again == parse_single_m3u(output_lines) IN
        /\ DOMAIN again.channels_map = FinalKeys
        /\ SeqToSet(again.order_list) = FinalKeys
        /\ \A k \in FinalKeys :
              /\ again.channels_map[k].urls = final_channels_data[k[2]].channels[k[1]].urls
              /\ extract_group_title(again.channels_map[k].info) = k[2]
              /\ k[1] \in SeqToSet(final_channels_data[k[2]].order_list)

C4_Witness ==
    /\ pc = "done"
    /\ Cardinality(FinalKeys) = 2
    /\ \E k \in FinalKeys : Cardinality(final_channels_data[k[2]].channels[k[1]].urls) = 2
    /\ \E k \in FinalKeys : final_channels_data[k[2]].channels[k[1]].configs # <<>>

\* C8 as stated: no entry holds the same config line twice, after a document is
\* parsed and after it is folded.
C8_NoDuplicateConfigs ==
    pc = "merged" =>
        /\ \A k \in DOMAIN ps.channels_map : NoDuplicates(ps.channels_map[k].configs)
        /\ \A k \in FinalKeys : NoDuplicates(final_channels_data[k[2]].channels[k[1]].configs)

\* C9 as stated: every resource line of a document is in the parsed result.
C9_NoResourceDropped ==
    pc = "merged" =>
        doc_urls \subseteq UNION { ps.channels_map[k].urls : k \in DOMAIN ps.channels_map }

\* ---------------------------------------------------------------- claims on the transform tool

\* A step of the loop over the channels that completes without raising.
ChannelStep == spc = "process" /\ spc' = "process" /\ ch_index' = ch_index + 1

\* The lines that step appends to the output, and the resource lines among them.
StepLines == SubSeq(sorter_lines', Len(sorter_lines) + 1, Len(sorter_lines'))

StepUrls == SelectSeq(StepLines, LAMBDA l : l.t = "url")

\* The resource lines of a line sequence.
UrlLines(lines) == SelectSeq(lines, LAMBDA l : l.t = "url")

RECURSIVE AllUrls(_)
AllUrls(chs) == IF chs = <<>> THEN <<>> ELSE Head(chs).urls \o AllUrls(Tail(chs))

\* C5: in rename mode (a new name or a new group is given) every channel's resource
\* lines are written in their input order, whatever the other arguments are; so the
\* resource lines of the returned output are those of the parsed channels, in order.
C5_RenameKeepsUrlOrder ==
    /\ [](spc = "returned" /\ rename_mode(args)
            => UrlLines(sorter_lines) = AllUrls(channels_data))
    /\ [][ChannelStep /\ rename_mode(args)
            => StepUrls = channels_data[ch_index + 1].urls]_vars

C5_Witness ==
    /\ spc = "returned"
    /\ rename_mode(args)
    /\ args.keywords # <<>>
    /\ \E k \in 1..Len(channels_data) :
          /\ should_sort_urls(channels_data[k], args)
          /\ SortedByScore(channels_data[k].urls, args.keywords, args.reverse_mode)
                # channels_data[k].urls
    /\ UrlLines(sorter_lines) = AllUrls(channels_data)

\* The scores the resources of a channel can take.
ScoresOf(urls, a) == { get_url_sort_score(urls[i], a.keywords, a.reverse_mode) : i \in 1..Len(urls) }

WithScore(urls, a, v) ==
    SelectSeq(urls, LAMBDA u : get_url_sort_score(u, a.keywords, a.reverse_mode) = v)

\* C6: in sort mode the resources of a channel that have the same score are written
\* in their input order; when all of them have the same score (none contains a
\* keyword) the output order is the input order.
C6_StableSort ==
    [][ChannelStep /\ ~rename_mode(args) =>
        LET urls == channels_data[ch_index + 1].urls IN
        /\ \A v \in ScoresOf(urls, args) : WithScore(StepUrls, args, v) = WithScore(urls, args, v)
        /\ Len(StepUrls) = Len(urls)
        /\ Cardinality(ScoresOf(urls, args)) <= 1 => StepUrls = urls
    ]_vars

C6_Witness ==
    /\ spc = "returned"
    /\ ~rename_mode(args)
    /\ ~args.reverse_mode
    /\ args.keywords = <<"HD">>
    /\ Len(channels_data) = 1
    /\ should_sort_urls(channels_data[1], args)
    /\ channels_data[1].urls = <<Url("http", 2, <<>>), Url("http", 4, <<"SD">>), Url("http", 1, <<>>)>>
    /\ UrlLines(sorter_lines) = channels_data[1].urls

\* The keywords a url contains, by 0-based position in the keyword list.
MatchedKeywords(u, keywords) == { i \in 0..(Len(keywords) - 1) : UrlContains(u, keywords[i + 1]) }

LowestMatch(u, keywords) ==
    CHOOSE i \in MatchedKeywords(u, keywords) : \A j \in MatchedKeywords(u, keywords) : i <= j

\* Where C7 places a resource: by keyword position before the unmatched ones in
\* forward mode, behind the unmatched ones in reverse mode.
PlaceOf(u, a) ==
    IF MatchedKeywords(u, a.keywords) = {}
    THEN IF a.reverse_mode THEN 0 ELSE Len(a.keywords)
    ELSE IF a.reverse_mode THEN LowestMatch(u, a.keywords) + 1 ELSE LowestMatch(u, a.keywords)

\* C7: a resource (a line with "://") that contains the keyword at position i, and
\* none before it, scores i - K in forward mode and i + 1 in reverse mode, and one
\* that contains no keyword scores 0; where a channel's resources are sorted, they
\* are written in forward mode by keyword position with the unmatched ones last, in
\* reverse mode with the unmatched ones first and then by keyword position.
C7_ScoreOrder ==
    [][ChannelStep /\ ~rename_mode(args) =>
        LET ch == channels_data[ch_index + 1]
            K == Len(args.keywords)
            res == SelectSeq(StepUrls, LAMBDA u : u.sch # "none")
        IN /\ \A j \in 1..Len(ch.urls) :
                 ch.urls[j].sch # "none" =>
                    get_url_sort_score(ch.urls[j], args.keywords, args.reverse_mode) =
                       IF MatchedKeywords(ch.urls[j], args.keywords) = {} THEN 0
                       ELSE IF args.reverse_mode
                            THEN LowestMatch(ch.urls[j], args.keywords) + 1
                            ELSE LowestMatch(ch.urls[j], args.keywords) - K
           /\ (should_sort_urls(ch, args) /\ Len(ch.urls) > 1) =>
                 \A p, q \in 1..Len(res) : p < q => PlaceOf(res[p], args) <= PlaceOf(res[q], args)
    ]_vars

C7_Witness ==
    /\ spc = "returned"
    /\ ~rename_mode(args)
    /\ ~args.reverse_mode
    /\ args.keywords = <<"HD", "sd">>
    /\ Len(channels_data) = 1
    /\ channels_data[1].urls = <<Url("http", 4, <<"SD">>), Url("http", 1, <<>>), Url("http", 3, <<"hd">>)>>
    /\ UrlLines(sorter_lines) = <<Url("http", 3, <<"hd">>), Url("http", 4, <<"SD">>), Url("http", 1, <<>>)>>

\* The position of the k-th #EXTINF line of a line sequence.
InfPosition(lines, k) ==
    CHOOSE p \in 1..Len(lines) :
        lines[p].t = "inf" /\ Cardinality({ r \in 1..p : lines[r].t = "inf" }) = k

\* The resource lines that follow position p up to the next #EXTINF line.
UrlsBehind(lines, p) ==
    { lines[r] : r \in { x \in (p + 1)..Len(lines) :
                          lines[x].t = "url" /\ \A y \in (p + 1)..x : lines[y].t # "inf" } }

\* C10 as stated: in the returned lines every channel's #EXTINF line comes first,
\* then its #EXTGRP line if it has one, then its resource lines, before the next
\* channel's #EXTINF line.
C10_LineOrder ==
    spc = "returned" =>
        /\ \A p \in 1..Len(sorter_lines) :
              /\ sorter_lines[p].t = "grp" => p > 1 /\ sorter_lines[p - 1].t = "inf"
              /\ sorter_lines[p].t = "url" => p > 1 /\ sorter_lines[p - 1].t \in {"inf", "grp", "url"}
        /\ Cardinality({ p \in 1..Len(sorter_lines) : sorter_lines[p].t = "inf" }) = Len(channels_data)
        /\ \A k \in 1..Len(channels_data) :
              UrlsBehind(sorter_lines, InfPosition(sorter_lines, k)) = SeqToSet(channels_data[k].urls)

\* The #EXTINF lines a step of the loop appends to the output.
StepInfs == SelectSeq(StepLines, LAMBDA l : l.t = "inf")

\* C11 as stated: with a new name given, a channel's display name is rewritten
\* exactly when the name keywords and the resource keywords both match it, whatever
\* the group keywords and the group-sort flag are.
C11_RenameIffBothPredicates ==
    [][ChannelStep /\ Truthy(args.new_name) =>
        LET ch == channels_data[ch_index + 1] IN
        /\ Len(StepInfs) = 1
        /\ (StepInfs[1].name = args.new_name)
              <=> (name_match(ch, args) /\ url_match_for_rename(ch, args))
    ]_vars

\* Whether the step wrote the channel with the new group: in its #EXTGRP line when
\* its group came from one, in the group-title attribute of its #EXTINF line otherwise.
StepGroupRenamed ==
    IF channels_data[ch_index + 1].extgrp_line # NoLine
    THEN Tag(args.rename_group) \in SeqToSet(StepLines)
    ELSE Len(StepInfs) = 1 /\ StepInfs[1].grp = args.rename_group

\* C12 as stated: with a new group given, a channel that has a group is written with
\* the new group exactly when the group keywords match it and each supplied list of
\* resource keywords and name keywords matches it, whether its group came from the
\* group-title attribute or from an #EXTGRP line.
C12_GroupRenameIff ==
    [][ChannelStep /\ Truthy(args.rename_group) /\ Truthy(channels_data[ch_index + 1].group) =>
        LET ch == channels_data[ch_index + 1] IN
        StepGroupRenamed <=> (group_match(ch, args) /\ should_rename_this_group(ch, args))
    ]_vars

\* C13 as stated: when the group-rename condition holds for a channel that has
\* neither a group-title attribute nor an #EXTGRP line, its #EXTINF line is written
\* with a new group-title attribute, holding the new group, in front of the name.
C13_SynthesizedGroup ==
    [][(/\ ChannelStep
        /\ Truthy(args.rename_group)
        /\ channels_data[ch_index + 1].group = NoVal
        /\ channels_data[ch_index + 1].inf.name # NoVal
        /\ group_match(channels_data[ch_index + 1], args)
        /\ should_rename_this_group(channels_data[ch_index + 1], args))
       => /\ Len(StepInfs) = 1
          /\ StepInfs[1] = update_extinf_group(
                              IF StepInfs[1].name = channels_data[ch_index + 1].inf.name
                              THEN channels_data[ch_index + 1].inf
                              ELSE rename_inf(channels_data[ch_index + 1].inf, args.new_name),
                              args.rename_group)
    ]_vars

\* ---------------------------------------------------------------- claims on both tools

\* The channels parse_m3u_file returns when the input ends after the lines read so far.
ParsedSoFar == SaveChannel(sp).channels_data

InfCount(lines) == Cardinality({ p \in 1..Len(lines) : lines[p].t = "inf" })

\* The #EXTGRP lines between the #EXTINF line at p and the next #EXTINF line.
TagsBehind(lines, p) ==
    { r \in (p + 1)..Len(lines) :
        lines[r].t = "grp" /\ \A y \in (p + 1)..r : lines[y].t # "inf" }

\* The #EXTGRP lines directly before or directly behind the #EXTINF line at p.
TagsBeside(lines, p) ==
    { r \in {p - 1, p + 1} \cap (1..Len(lines)) : lines[r].t = "grp" }

InlineGroup(l) == IF l.gq \in {"dq", "sq"} THEN l.grp ELSE NoVal

DefaultLabel == "unclassified"

\* C14 as stated: the group of a parsed channel is the label of the #EXTGRP line
\* directly before or behind its #EXTINF line, else the value of its group-title
\* attribute, else the default label.
C14_TagBesideWins ==
    spc = "parse" =>
        /\ Len(ParsedSoFar) = InfCount(sorter_doc)
        /\ \A k \in 1..Len(ParsedSoFar) :
              LET p == InfPosition(sorter_doc, k)
                  beside == TagsBeside(sorter_doc, p)
              IN ParsedSoFar[k].group =
                    IF beside # {}
                    THEN sorter_doc[CHOOSE r \in beside : \A x \in beside : r >= x].label
                    ELSE IF InlineGroup(sorter_doc[p]) # NoVal
                    THEN InlineGroup(sorter_doc[p])
                    ELSE DefaultLabel

\* C14 amended. Transform tool: the group of a parsed channel is the label of the
\* last #EXTGRP line between its #EXTINF line and the next #EXTINF line, else the
\* value of its group-title attribute (in double or single quotes), else None; an
\* #EXTGRP line in front of an #EXTINF line belongs to the channel before it and
\* never to the one that follows. Merge tool: the group of an entry is the value of
\* the double-quoted group-title attribute of its #EXTINF line, else the empty
\* string; an #EXTGRP line is kept as a config line and names no group.
C14_GroupResolution ==
    /\ spc = "parse" =>
          /\ Len(ParsedSoFar) = InfCount(sorter_doc)
          /\ \A k \in 1..Len(ParsedSoFar) :
                LET p == InfPosition(sorter_doc, k)
                    behind == TagsBehind(sorter_doc, p)
                IN /\ ParsedSoFar[k].inf = sorter_doc[p]
                   /\ ParsedSoFar[k].group =
                         IF behind # {}
                         THEN sorter_doc[CHOOSE r \in behind : \A x \in behind : r >= x].label
                         ELSE InlineGroup(sorter_doc[p])
    /\ pc = "merged" =>
          /\ \A key \in DOMAIN ps.channels_map :
                LET info == ps.channels_map[key].info IN
                key[2] = IF info.gq = "dq" THEN info.grp ELSE ""
          /\ \A g \in DOMAIN final_channels_data :
                \A n \in DOMAIN final_channels_data[g].channels :
                    LET info == final_channels_data[g].channels[n].info IN
                    g = IF info.gq = "dq" THEN info.grp ELSE ""

C14_Witness ==
    /\ spc = "parse"
    /\ sorter_doc = <<Inf("A", "News", "dq"), Url("http", 3, <<"hd">>), Tag("Sports"),
                      Inf("B", NoVal, "none")>>
    /\ ParsedSoFar[1].group = "Sports"
    /\ ParsedSoFar[2].group = NoVal

\* ---------------------------------------------------------------- more claims on the merge tool

\* The identity key of an #EXTINF line of the merge tool.
KeyOfLine(l) == <<name_after_comma(l), IF l.gq = "dq" THEN l.grp ELSE "">>

\* The positions in a document of the occurrences of a key.
Occurrences(lines, key) ==
    { p \in 1..Len(lines) :
        lines[p].t = "inf" /\ name_after_comma(lines[p]) # NoVal /\ KeyOfLine(lines[p]) = key }

KeysOfDoc(lines) ==
    { KeyOfLine(lines[p]) : p \in { x \in 1..Len(lines) : lines[x].t = "inf" /\ name_after_comma(lines[x]) # NoVal } }

LastOccurrence(lines, key) ==
    lines[CHOOSE p \in Occurrences(lines, key) : \A x \in Occurrences(lines, key) : p >= x]

\* The http(s) lines that follow an occurrence of the key before the next #EXTINF line.
OccurrenceUrls(lines, key) ==
    { lines[r] : r \in { x \in 1..Len(lines) :
        /\ lines[x].t = "url" /\ lines[x].sch = "http"
        /\ \E p \in Occurrences(lines, key) :
              p < x /\ \A y \in (p + 1)..x : lines[y].t # "inf" } }

\* C15: a key met again, in the same document or in a later one, takes the #EXTINF
\* line of that occurrence: after a document is folded every key of the document
\* holds the line of its last occurrence in the document and the other keys keep
\* theirs, while the resources of every occurrence are added to the key's set; the
\* line written for an entry is the one it holds.
C15_LastWriteWins ==
    /\ [][FoldStep =>
            /\ DOMAIN ps'.channels_map = KeysOfDoc(doc_lines)
            /\ \A key \in KeysOfDoc(doc_lines) :
                  /\ ps'.channels_map[key].info = LastOccurrence(doc_lines, key)
                  /\ ps'.channels_map[key].urls = OccurrenceUrls(doc_lines, key)
            /\ \A g \in DOMAIN final_channels_data' :
                  \A n \in DOMAIN final_channels_data'[g].channels :
                      LET new == final_channels_data'[g].channels[n]
                          before == IF n \in DOMAIN ChannelsOf(final_channels_data, g)
                                    THEN final_channels_data[g].channels[n].urls ELSE {}
                      IN /\ new.info = IF <<n, g>> \in KeysOfDoc(doc_lines)
                                       THEN LastOccurrence(doc_lines, <<n, g>>)
                                       ELSE final_channels_data[g].channels[n].info
                         /\ new.urls = before \cup OccurrenceUrls(doc_lines, <<n, g>>)
       ]_vars
    /\ [](pc = "done" =>
            /\ \A k \in FinalKeys :
                  final_channels_data[k[2]].channels[k[1]].info \in SeqToSet(output_lines)
            /\ { l \in SeqToSet(output_lines) : l.t = "inf" }
                  = { final_channels_data[k[2]].channels[k[1]].info : k \in FinalKeys })

C15_Witness ==
    /\ pc = "merged"
    /\ nfiles = 2
    /\ "" \in DOMAIN final_channels_data
    /\ "A" \in DOMAIN final_channels_data[""].channels
    /\ final_channels_data[""].channels["A"].info = Inf("A", NoVal, "none")
    /\ final_channels_data[""].channels["A"].urls = {Url("http", 1, <<>>), Url("http", 2, <<>>)}
    /\ <<"A", "">> \in DOMAIN ps.channels_map
    /\ doc_lines = <<Inf("A", "News", "sq"), Url("http", 2, <<>>), Inf("A", NoVal, "none")>>
    /\ ps.channels_map[<<"A", "">>].urls = {Url("http", 2, <<>>)}

\* ---------------------------------------------------------------- claims on m3u_mergerng

\* The #EXTINF line in force at position i of the document: the last one before i.
NgInfBefore(doc, i) ==
    LET before == {j \in 1..(i - 1) : doc[j].t = "inf"}
    IN IF before = {} THEN 0 ELSE CHOOSE j \in before : \A k \in before : k <= j

\* The positions of the document where a channel occurs: an http(s) line whose
\* #EXTINF line in force carries a name.
NgOccurrences(doc) ==
    {i \in 1..Len(doc) :
        /\ doc[i].t = "url" /\ doc[i].sch = "http"
        /\ NgInfBefore(doc, i) # 0
        /\ doc[NgInfBefore(doc, i)].name # <<>>}

NgOccInfo(doc, i) == doc[NgInfBefore(doc, i)]

NgOccOfKey(doc, k) == {i \in NgOccurrences(doc) : get_norm_key(NgOccInfo(doc, i).name) = k}

NgFirst(S) == CHOOSE i \in S : \A j \in S : i <= j

\* C16 as stated: when parse_m3u has returned, an entry whose key is also the key of
\* an #EXTINF line with a preferred name (a hyphen in it, or the designator at its
\* end) carries a preferred name.
C16_PreferredNameWins ==
    npc = "returned" =>
        \A k \in DOMAIN ng.channels :
            (\E i \in 1..Len(ng_doc) :
                /\ ng_doc[i].t = "inf" /\ ng_doc[i].name # <<>>
                /\ get_norm_key(ng_doc[i].name) = k
                /\ is_preferred(ng_doc[i].name))
            => is_preferred(ng.channels[k].name)

\* C16, amended: a channel occurs where an http(s) line follows an #EXTINF line with a
\* name that is still in force. The occurrences of one key form one entry, its urls
\* are the union of theirs, and its name and line are those of the first preferred
\* occurrence when there is one, in whatever order the occurrences appear, and
\* those of the first occurrence otherwise.
C16_CanonicalForm ==
    /\ DOMAIN ng.channels = {get_norm_key(NgOccInfo(ng_doc, i).name) : i \in NgOccurrences(ng_doc)}
    /\ \A k \in DOMAIN ng.channels :
        LET occ == NgOccOfKey(ng_doc, k)
            pref == {i \in occ : is_preferred(NgOccInfo(ng_doc, i).name)}
            chosen == IF pref # {} THEN NgFirst(pref) ELSE NgFirst(occ)
        IN /\ ng.channels[k].urls = {ng_doc[i] : i \in occ}
           /\ ng.channels[k].info = NgOccInfo(ng_doc, chosen)
           /\ ng.channels[k].name = NgOccInfo(ng_doc, chosen).name
           /\ (pref # {} => is_preferred(ng.channels[k].name))

\* A plain name with one url, then a hyphenated name of the same key with another:
\* one entry, both urls, the hyphenated name.
C16_Witness ==
    /\ npc = "returned"
    /\ ng_doc = << Inf(<<"c", "1">>, "News", "dq"), Url("http", 1, <<>>),
                   Inf(<<"C", "-", "1">>, "News", "dq"), Url("http", 2, <<>>) >>
    /\ DOMAIN ng.channels = {<<"C", "1">>}
    /\ ng.channels[<<"C", "1">>].name = <<"C", "-", "1">>
    /\ ng.channels[<<"C", "1">>].urls = {Url("http", 1, <<>>), Url("http", 2, <<>>)}

\* ---------------------------------------------------------------- claims on the main flows

\* C17: a run of the transform tool's main whose arguments are valid does not end
\* before the output was written exactly once, and it ends in success.
C17_SingleCommit ==
    (spc \in {"exit0", "exit1"} /\ MainArgsValid(args)) => (spc = "exit0" /\ sorter_written = 1)

\* C18: the merge tool's run is not given up while one of its input files is
\* present and readable: a file that cannot be read is passed over.
C18_UnavailableSkipped ==
    pc \in {"invalid", "failed"} => \A i \in 1..Len(inputs) : inputs[i] # "ok"

\* ---------------------------------------------------------------- claims on the display name

\* C19: when parse_single_m3u has read an #EXTINF line, the name it holds for the
\* channel is the text behind the last comma of that line.
C19_NameAfterLastComma ==
    (pc = "parse" /\ doc_lines # <<>> /\ doc_lines[Len(doc_lines)].t = "inf")
        => ps.current_channel_name = doc_lines[Len(doc_lines)].name

\* A name keyword is in the display name of the channel.
DisplayNameMatch(ch, a) ==
    /\ ch.inf.name # NoVal
    /\ \E i \in 1..Len(a.target_channels) : Lower(ch.inf.name) = Lower(a.target_channels[i])

\* C20: a channel is given the new name only when one of the name keywords is in
\* its display name; a keyword found elsewhere on the #EXTINF line does not count.
C20_NameScope ==
    [][ChannelStep /\ Truthy(args.new_name) /\ args.group_names = <<>> =>
        LET ch == channels_data[ch_index + 1] IN
        (Len(StepInfs) = 1 /\ StepInfs[1].name = args.new_name) => DisplayNameMatch(ch, args)
    ]_vars

\* ---------------------------------------------------------------- claims on the group rename

\* The group-rename condition of the channel the loop of line 262 is at.
GroupRenameHolds(ch, a) ==
    /\ Truthy(a.rename_group)
    /\ a.group_names # <<>>
    /\ Truthy(ch.group)
    /\ group_match(ch, a)
    /\ should_rename_this_group(ch, a)

\* C21: when the group-rename condition holds for a channel whose group-title
\* attribute is single-quoted, the step does not raise and writes the #EXTINF line
\* with only the value of that attribute replaced by the new group.
C21_SingleQuotedPatched ==
    [][(/\ spc = "process"
        /\ ch_index < Len(channels_data)
        /\ channels_data[ch_index + 1].inf.gq = "sq"
        /\ channels_data[ch_index + 1].extgrp_line = NoLine
        /\ ~Truthy(args.new_name)
        /\ GroupRenameHolds(channels_data[ch_index + 1], args))
       => (/\ ChannelStep
           /\ StepInfs = << [channels_data[ch_index + 1].inf EXCEPT !.grp = args.rename_group] >>)
    ]_vars

\* ---------------------------------------------------------------- claims on the order lists

\* C22: a fold leaves every group in place, keeps every key of its order list, and
\* keeps any two of them in the order they had; it only inserts new keys.
C22_KnownKeysKeepOrder ==
    [][FoldStep =>
        /\ DOMAIN final_channels_data \subseteq DOMAIN final_channels_data'
        /\ \A g \in DOMAIN final_channels_data :
            LET old == OrderListOf(final_channels_data, g)
                new == OrderListOf(final_channels_data', g)
            IN /\ \A i \in 1..Len(old) : old[i] \in SeqToSet(new)
               /\ \A i, j \in 1..Len(old) :
                     i < j => PositionIn(new, old[i]) < PositionIn(new, old[j])
               /\ Len(new) = Len(old) + Cardinality(SeqToSet(new) \ SeqToSet(old))
    ]_vars

\* The second document lists B and then A for a group whose order list has A in
\* front of B: a key new to the group would stand where the document puts it, so
\* both were known before the fold, and they kept their places.
C22_Witness ==
    /\ pc = "merged"
    /\ nfiles = 2
    /\ NamesFor(ps, "News") = <<"B", "A">>
    /\ Len(OrderListOf(final_channels_data, "News")) = 3
    /\ OrderListOf(final_channels_data, "News")[1] = "A"
    /\ OrderListOf(final_channels_data, "News")[3] = "B"

\* The last #EXTGRP line of a sequence of lines, NoLine when it has none.
LastTag(lines) ==
    LET tags == SelectSeq(lines, LAMBDA l : l.t = "grp")
    IN IF tags = <<>> THEN NoLine ELSE tags[Len(tags)]

\* C23: with a new group given, a channel of an #EXTGRP group for which the
\* group-rename condition does not hold is written with its own #EXTINF line, and
\* the last #EXTGRP line written up to it is the one of its own group.
C23_OthersKeepTheirGroup ==
    [][(/\ ChannelStep
        /\ Truthy(args.rename_group)
        /\ ~Truthy(args.new_name)
        /\ args.group_names # <<>>
        /\ channels_data[ch_index + 1].extgrp_line # NoLine
        /\ ~GroupRenameHolds(channels_data[ch_index + 1], args))
       => (/\ StepInfs = << channels_data[ch_index + 1].inf >>
           /\ LastTag(sorter_lines') = channels_data[ch_index + 1].extgrp_line)
    ]_vars

\* C24: with group keywords supplied, sort_m3u_urls does not raise on an input that
\* holds a channel without a group-title attribute and without an #EXTGRP line.
C24_GrouplessNeverAborts ==
    (/\ spc \in {"process", "returned", "raised"}
     /\ args.group_names # <<>>
     /\ \E i \in 1..Len(channels_data) : channels_data[i].group = NoVal)
    => spc # "raised"

====
